---------------------------- MODULE Spec2Model ----------------------------
(***************************************************************************)
(* A model of glypy's Composition engine                                   *)
(* (src/src/glypy/composition/ccomposition.pyx): the dict-backed signed    *)
(* multiset CComposition, its arithmetic and comparison operators, the     *)
(* cached mass query calc_mass / calculate_mass, and the formula parser    *)
(* (_from_formula and the right-to-left _from_formula_parens).             *)
(*                                                                         *)
(* Strings are sequences of one-character strings, so that formatting and  *)
(* parsing of keys and formulas are computed character by character.       *)
(* A Python dict is a function whose DOMAIN is the set of stored keys.     *)
(***************************************************************************)
EXTENDS Integers, Sequences, FiniteSets, TLC

VARIABLES comp, other, mass, mass_args, ret, formula, pc,
          heap, table, other_table, hash_seed,
          objs, c_obj, clone_obj

\* the CountTable objects and the salt of this process's str hashes
tvars == <<heap, table, other_table, hash_seed>>

\* the storage of the Composition objects told apart by identity, and the
\* objects the names c and clone are bound to
cvars == <<objs, c_obj, clone_obj>>

vars == <<comp, other, mass, mass_args, ret, formula, pc, tvars, cvars>>

(***************************************************************************)
(* Bounds of the model.                                                    *)
(***************************************************************************)
\* largest absolute count a stored entry may reach
MaxCount == 2
\* largest absolute charge passed to a mass query
MaxCharge == 2
\* largest number of pieces concatenated into a formula with groups
MaxPieces == 4
\* largest number of pieces concatenated into a parenthesis-free formula
MaxFlatPieces == 4
\* largest number of pieces in a formula given to the constructor together
\* with a mapping
MaxInitPieces == 2
\* largest absolute value held by a cell of a count table
MaxValue == 1
\* largest number of cells ever written in a count table
MaxUsed == 2
\* width in bits of the word that stands for Py_hash_t
HashBits == 12

\* the None passed to _create
NoInst == << >>

(***************************************************************************)
(* Characters and strings.                                                 *)
(***************************************************************************)
Digits == <<"0", "1", "2", "3", "4", "5", "6", "7", "8", "9">>

IsDigit(c) == \E d \in 1..10 : Digits[d] = c

DigitVal(c) == (CHOOSE d \in 1..10 : Digits[d] = c) - 1

IsUpper(c) == c \in {"C", "H", "O", "X", "Z"}

IsLowerOrPlus(c) == c \in {"a", "e", "z", "+"}

\* the substring s[lo:hi] of Python (0-based, hi exclusive)
Slice(s, lo, hi) == IF hi <= lo THEN << >> ELSE SubSeq(s, lo + 1, hi)

\* s[i] of Python for an index that may be negative (wraps around)
PyChar(s, i) == IF i < 0 THEN s[Len(s) + i + 1] ELSE s[i + 1]

RECURSIVE Reverse(_)
Reverse(s) == IF s = << >> THEN << >> ELSE Append(Reverse(Tail(s)), Head(s))

RECURSIVE DigitsValue(_, _)
DigitsValue(s, acc) ==
    IF s = << >> THEN acc ELSE DigitsValue(Tail(s), 10 * acc + DigitVal(Head(s)))

AllDigits(s) == s # << >> /\ \A p \in 1..Len(s) : IsDigit(s[p])

\* int(s) of Python: an optional sign followed by digits, else ValueError
IntValid(s) ==
    IF s # << >> /\ Head(s) \in {"+", "-"} THEN AllDigits(Tail(s)) ELSE AllDigits(s)

IntOf(s) ==
    IF Head(s) = "-" THEN 0 - DigitsValue(Tail(s), 0)
    ELSE IF Head(s) = "+" THEN DigitsValue(Tail(s), 0)
    ELSE DigitsValue(s, 0)

RECURSIVE DecimalDigits(_)
DecimalDigits(n) ==
    IF n < 10 THEN <<Digits[n + 1]>>
    ELSE Append(DecimalDigits(n \div 10), Digits[(n % 10) + 1])

\* '%d' % n
Decimal(n) == IF n < 0 THEN <<"-">> \o DecimalDigits(0 - n) ELSE DecimalDigits(n)

(***************************************************************************)
(* Isotope strings.                                                        *)
(***************************************************************************)
UntaggedName(element_name, isotope_num) == element_name

_make_isotope_string(element_name, isotope_num) ==
    IF isotope_num = 0 THEN element_name
    ELSE element_name \o <<"[">> \o Decimal(isotope_num) \o <<"]">>

\* the scan of _parse_isotope_string: st = [name, num, in_bracket]
RECURSIVE ParseIsoScan(_, _, _, _)
ParseIsoScan(label, name, num, in_bracket) ==
    IF label = << >> THEN [name |-> name, num |-> num]
    ELSE LET current == Head(label) IN
         IF in_bracket
         THEN IF current = "]" THEN [name |-> name, num |-> num]
              ELSE ParseIsoScan(Tail(label), name, Append(num, current), TRUE)
         ELSE IF current = "[" THEN ParseIsoScan(Tail(label), name, num, TRUE)
         ELSE ParseIsoScan(Tail(label), Append(name, current), num, FALSE)

_parse_isotope_string(label) ==
    LET r == ParseIsoScan(label, << >>, << >>, FALSE) IN
    [element_name |-> r.name,
     isotope_num  |-> IF Len(r.num) > 0 THEN IntOf(r.num) ELSE 0]

(***************************************************************************)
(* The dict underneath a CComposition.                                     *)
(***************************************************************************)
EmptyDict == [k \in {} |-> 0]

\* PyDict_SetItem
DictSet(d, k, v) == [x \in (DOMAIN d) \cup {k} |-> IF x = k THEN v ELSE d[x]]

\* PyDict_DelItem
DictDel(d, k) == [x \in (DOMAIN d) \ {k} |-> d[x]]

\* PyDict_Update(d, src)
DictUpdate(d, src) ==
    [x \in (DOMAIN d) \cup (DOMAIN src) |-> IF x \in DOMAIN src THEN src[x] ELSE d[x]]

\* CComposition.getitem: 0 for an absent key
getitem(d, elem) == IF elem \in DOMAIN d THEN d[elem] ELSE 0

\* CComposition.setitem: a plain store, whatever the value
setitem(d, elem, val) == DictSet(d, elem, val)

\* CComposition.__missing__: what c[key] yields for an absent key
__missing__(key) == 0

\* c[key]: dict.__getitem__, which calls __missing__ for an absent key
__getitem__(d, key) == IF key \in DOMAIN d THEN d[key] ELSE __missing__(key)

StoreAnyway(d, key, value) == DictSet(d, key, value)

\* CComposition.__setitem__: a zero value deletes the key
__setitem__(d, key, value) ==
    IF value # 0 THEN setitem(d, key, value)
    ELSE IF key \in DOMAIN d THEN DictDel(d, key)
    ELSE d

\* self[key] += n : __missing__ reads 0, then __setitem__
AddCount(d, key, n) == __setitem__(d, key, getitem(d, key) + n)

\* the loop of add_from over the entries of other
RECURSIVE AddLoop(_, _, _)
AddLoop(self, oth, todo) ==
    IF todo = {} THEN self
    ELSE LET elem == CHOOSE k \in todo : TRUE IN
         AddLoop(setitem(self, elem, getitem(self, elem) + oth[elem]), oth, todo \ {elem})

OverwriteFrom(self, oth) == DictUpdate(self, oth)

add_from(self, oth) == AddLoop(self, oth, DOMAIN oth)

RECURSIVE SubLoop(_, _, _)
SubLoop(self, oth, todo) ==
    IF todo = {} THEN self
    ELSE LET elem == CHOOSE k \in todo : TRUE IN
         SubLoop(setitem(self, elem, getitem(self, elem) - oth[elem]), oth, todo \ {elem})

subtract_from(self, oth) == SubLoop(self, oth, DOMAIN oth)

\* CComposition._create(inst): a new object holding a copy of inst's entries
\* (_create(None) is the case inst = NoInst, which copies nothing)
CreateEmpty(inst) == EmptyDict

_create(inst) == IF inst = NoInst THEN EmptyDict ELSE DictUpdate(EmptyDict, inst)

__add__(self, oth) == add_from(_create(self), oth)

__sub__(self, oth) == subtract_from(_create(self), oth)

RECURSIVE MulLoop(_, _, _, _)
MulLoop(prod, self, rep, todo) ==
    IF todo = {} THEN prod
    ELSE LET k == CHOOSE x \in todo : TRUE IN
         MulLoop(setitem(prod, k, self[k] * rep), self, rep, todo \ {k})

__mul__(self, rep) == MulLoop(_create(NoInst), self, rep, DOMAIN self)

__imul__(self, rep) == MulLoop(self, self, rep, DOMAIN self)

KeepSign(self) == __mul__(self, 1)

__neg__(self) == __mul__(self, 0 - 1)

\* the comparison loop shared by __eq__ and __ne__: TRUE when no entry of
\* the dict iterated over differs from the other dict's count
SameCounts(iterated, looked_up) ==
    \A k \in DOMAIN iterated : getitem(looked_up, k) = iterated[k]

__eq__(self, oth) ==
    IF Cardinality(DOMAIN oth) > Cardinality(DOMAIN self)
    THEN SameCounts(oth, self)
    ELSE SameCounts(self, oth)

__ne__(self, oth) ==
    IF Cardinality(DOMAIN oth) > Cardinality(DOMAIN self)
    THEN ~SameCounts(oth, self)
    ELSE ~SameCounts(self, oth)

(***************************************************************************)
(* The keys of the model: element names, and the charge carrier H+.        *)
(***************************************************************************)
C == <<"C">>

H == <<"H">>

O == <<"O">>

Hp == <<"H", "+">>

X == <<"X">>

(***************************************************************************)
(* The count table (src/unnamed/part_013): a fixed array of bins, each a   *)
(* growing array of (key, value) cells.  A removed cell keeps its place    *)
(* with a NULL key; a bin's first `used` cells are the ones ever written.  *)
(* Bins and cells are numbered from 1 here and from 0 in the source.       *)
(* Memory is a heap of count_table structs indexed by address, so that     *)
(* two CountTable objects sharing a struct can be told from two objects    *)
(* holding equal structs.                                                  *)
(***************************************************************************)
\* the NULL key of an empty or removed cell
NULL == << >>

initialize_count_table_bin(size) == [cells |-> << >>, used |-> 0, size |-> size]

make_count_table(table_size, bin_size) ==
    [bins |-> [i \in 1..table_size |-> initialize_count_table_bin(bin_size)],
     size |-> table_size]

\* CountTable._initialize_table: six bins of two cells
_initialize_table == make_count_table(6, 2)

\* str hashes are salted per process: under seed 1 the keys H and O share a
\* bin, under seed 2 they do not
PyObject_Hash(key) ==
    IF key = H THEN 7
    ELSE IF hash_seed = 1 THEN 13 ELSE 4

AppendGrowsByOne(bin, key, value) ==
    [cells |-> Append(bin.cells, [key |-> key, value |-> value]),
     used |-> bin.used + 1,
     size |-> IF bin.used = bin.size - 1 THEN bin.size + 1 ELSE bin.size]

\* the array doubles when the cell about to be written is its last one
count_table_bin_append(bin, key, value) ==
    [cells |-> Append(bin.cells, [key |-> key, value |-> value]),
     used |-> bin.used + 1,
     size |-> IF bin.used = bin.size - 1 THEN bin.size * 2 ELSE bin.size]

FirstCell(bin, query) == IF bin.used = 0 THEN 0 - 1 ELSE 1

\* the first cell of the bin holding the key, -1 when there is none
count_table_bin_find(bin, query) ==
    LET hits == {i \in 1..bin.used : bin.cells[i].key # NULL /\ bin.cells[i].key = query} IN
    IF hits = {} THEN 0 - 1 ELSE CHOOSE i \in hits : \A j \in hits : i <= j

FirstBin(tbl, query) == 1

count_table_find_bin(tbl, query) == (PyObject_Hash(query) % tbl.size) + 1

count_table_put(tbl, key, value) ==
    LET bin_index == count_table_find_bin(tbl, key)
        cell_index == count_table_bin_find(tbl.bins[bin_index], key) IN
    IF cell_index = 0 - 1
    THEN [tbl EXCEPT !.bins[bin_index] = count_table_bin_append(@, key, value)]
    ELSE [tbl EXCEPT !.bins[bin_index].cells[cell_index].value = value]

\* the table after the removal and the value written to value[0]
count_table_del(tbl, key) ==
    LET bin_index == count_table_find_bin(tbl, key)
        cell_index == count_table_bin_find(tbl.bins[bin_index], key) IN
    IF cell_index = 0 - 1
    THEN [table |-> tbl, value |-> 0]
    ELSE [table |-> [tbl EXCEPT !.bins[bin_index].cells[cell_index] =
                                    [key |-> NULL, value |-> 0]],
          value |-> tbl.bins[bin_index].cells[cell_index].value]

count_table_get(tbl, key) ==
    LET bin_index == count_table_find_bin(tbl, key)
        cell_index == count_table_bin_find(tbl.bins[bin_index], key) IN
    IF cell_index = 0 - 1 THEN 0
    ELSE tbl.bins[bin_index].cells[cell_index].value

PutInstead(tbl, key, value) == count_table_put(tbl, key, value)

count_table_increment(tbl, key, value) ==
    LET bin_index == count_table_find_bin(tbl, key)
        cell_index == count_table_bin_find(tbl.bins[bin_index], key) IN
    IF cell_index = 0 - 1
    THEN [tbl EXCEPT !.bins[bin_index] = count_table_bin_append(@, key, value)]
    ELSE [tbl EXCEPT !.bins[bin_index].cells[cell_index].value = @ + value]

count_table_decrement(tbl, key, value) ==
    LET bin_index == count_table_find_bin(tbl, key)
        cell_index == count_table_bin_find(tbl.bins[bin_index], key) IN
    IF cell_index = 0 - 1
    THEN [tbl EXCEPT !.bins[bin_index] = count_table_bin_append(@, key, 0 - value)]
    ELSE [tbl EXCEPT !.bins[bin_index].cells[cell_index].value = @ - value]

\* the cells with a key, bin after bin, in the order every table loop
\* visits them, from cell j of bin i on
RECURSIVE count_table_items(_, _, _)
count_table_items(tbl, i, j) ==
    IF i > tbl.size THEN << >>
    ELSE IF j > tbl.bins[i].used THEN count_table_items(tbl, i + 1, 1)
    ELSE IF tbl.bins[i].cells[j].key = NULL THEN count_table_items(tbl, i, j + 1)
    ELSE <<tbl.bins[i].cells[j]>> \o count_table_items(tbl, i, j + 1)

\* count_table_add(table_a, table_b) on the structs at addresses a and b of
\* mem, from cell j of bin i of table_b on; table_b is read as it is when
\* each cell is reached, which matters when a = b
RECURSIVE count_table_add(_, _, _, _, _)
count_table_add(mem, a, b, i, j) ==
    IF i > mem[b].size THEN mem
    ELSE IF j > mem[b].bins[i].used THEN count_table_add(mem, a, b, i + 1, 1)
    ELSE IF mem[b].bins[i].cells[j].key = NULL THEN count_table_add(mem, a, b, i, j + 1)
    ELSE LET key == mem[b].bins[i].cells[j].key
             value == count_table_get(mem[b], key) IN
         count_table_add([mem EXCEPT ![a] = count_table_increment(@, key, value)],
                         a, b, i, j + 1)

RECURSIVE count_table_subtract(_, _, _, _, _)
count_table_subtract(mem, a, b, i, j) ==
    IF i > mem[b].size THEN mem
    ELSE IF j > mem[b].bins[i].used THEN count_table_subtract(mem, a, b, i + 1, 1)
    ELSE IF mem[b].bins[i].cells[j].key = NULL THEN count_table_subtract(mem, a, b, i, j + 1)
    ELSE LET key == mem[b].bins[i].cells[j].key
             value == count_table_get(mem[b], key) IN
         count_table_subtract([mem EXCEPT ![a] = count_table_decrement(@, key, value)],
                              a, b, i, j + 1)

\* count_table_update(table_a, table_b) on the structs at addresses a and b
RECURSIVE count_table_update(_, _, _, _, _)
count_table_update(mem, a, b, i, j) ==
    IF i > mem[b].size THEN mem
    ELSE IF j > mem[b].bins[i].used THEN count_table_update(mem, a, b, i + 1, 1)
    ELSE IF mem[b].bins[i].cells[j].key = NULL THEN count_table_update(mem, a, b, i, j + 1)
    ELSE LET key == mem[b].bins[i].cells[j].key
             value == count_table_get(mem[b], key) IN
         count_table_update([mem EXCEPT ![a] = count_table_put(@, key, value)],
                            a, b, i, j + 1)

\* count_table_count: the cells with a key
count_table_count(tbl) == Len(count_table_items(tbl, 1, 1))

\* count_table_keys: the key of every cell with a key, in bin order
count_table_keys(tbl) ==
    [n \in 1..Len(count_table_items(tbl, 1, 1)) |-> count_table_items(tbl, 1, 1)[n].key]

count_table_scale(tbl, value) ==
    [tbl EXCEPT !.bins = [i \in 1..tbl.size |->
        [tbl.bins[i] EXCEPT !.cells = [j \in 1..tbl.bins[i].used |->
            IF tbl.bins[i].cells[j].key # NULL
            THEN [tbl.bins[i].cells[j] EXCEPT !.value = @ * value]
            ELSE tbl.bins[i].cells[j]]]]]

count_table_clear(tbl) ==
    [tbl EXCEPT !.bins = [i \in 1..tbl.size |->
        [tbl.bins[i] EXCEPT !.cells = [j \in 1..tbl.bins[i].used |->
            [key |-> NULL, value |-> 0]]]]]

\* the cells with a key of one bin, appended to a bin of the copy
RECURSIVE CopyBin(_, _, _)
CopyBin(dup_bin, bin, j) ==
    IF j > bin.used THEN dup_bin
    ELSE IF bin.cells[j].key = NULL THEN CopyBin(dup_bin, bin, j + 1)
    ELSE CopyBin(count_table_bin_append(dup_bin, bin.cells[j].key, bin.cells[j].value),
                 bin, j + 1)

count_table_copy(table_a) ==
    LET dup == make_count_table(table_a.size, 2) IN
    [dup EXCEPT !.bins = [i \in 1..table_a.size |->
        CopyBin(dup.bins[i], table_a.bins[i], 1)]]

NonzeroDict(table_a) ==
    LET items == count_table_items(table_a, 1, 1)
        held == {items[n].key : n \in 1..Len(items)} IN
    [k \in {j \in held : count_table_get(table_a, j) # 0} |-> count_table_get(table_a, k)]

\* the dict of the table: PyDict_SetItem for every cell with a key
count_table_to_dict(table_a) ==
    LET items == count_table_items(table_a, 1, 1)
        last(k) == CHOOSE n \in 1..Len(items) :
                       /\ items[n].key = k
                       /\ \A m \in (n + 1)..Len(items) : items[m].key # k IN
    [k \in {items[n].key : n \in 1..Len(items)} |-> items[last(k)].value]

\* every cell with a key of one table against count_table_get of the other
HalfEquals(table_a, table_b) ==
    LET items == count_table_items(table_a, 1, 1) IN
    \A n \in 1..Len(items) : items[n].value = count_table_get(table_b, items[n].key)

OneWayEquals(table_a, table_b) == HalfEquals(table_a, table_b)

count_table_equals(table_a, table_b) ==
    HalfEquals(table_a, table_b) /\ HalfEquals(table_b, table_a)

(***************************************************************************)
(* The CountTable object over its struct.  A plain dict argument is the    *)
(* sequence of its (key, value) items in the order PyDict_Next gives them. *)
(***************************************************************************)
CountTable_getitem(tbl, key) == count_table_get(tbl, key)

CountTable_setitem(tbl, key, value) == count_table_put(tbl, key, value)

CountTable_delitem(tbl, key) == count_table_del(tbl, key)

\* pop(key) with default=None: the return type is a C long, so returning the
\* default fails to convert None and raises TypeError
CountTable_pop(tbl, key) ==
    LET r == CountTable_delitem(tbl, key) IN
    [table |-> r.table,
     kind |-> IF r.value = 0 THEN "TypeError" ELSE "ok",
     value |-> r.value]

RECURSIVE _update_from_dict(_, _)
_update_from_dict(tbl, d) ==
    IF d = << >> THEN tbl
    ELSE _update_from_dict(CountTable_setitem(tbl, Head(d).key, Head(d).value), Tail(d))

RECURSIVE _add_from_dict(_, _)
_add_from_dict(tbl, d) ==
    IF d = << >> THEN tbl
    ELSE LET v == Head(d).value IN
         _add_from_dict(
             CountTable_setitem(tbl, Head(d).key, v + CountTable_getitem(tbl, Head(d).key)),
             Tail(d))

RECURSIVE _subtract_from_dict(_, _)
_subtract_from_dict(tbl, d) ==
    IF d = << >> THEN tbl
    ELSE LET v == Head(d).value IN
         _subtract_from_dict(
             CountTable_setitem(tbl, Head(d).key, v - CountTable_getitem(tbl, Head(d).key)),
             Tail(d))

\* CountTable.update(obj) with a CountTable at address b: the first if calls
\* _update_from_count_table, and as a CountTable is no dict the else branch
\* of the second if then stores every item of obj.items() with self[k] = v
update(mem, a, b) ==
    LET first == count_table_update(mem, a, b, 1, 1) IN
    [first EXCEPT ![a] = _update_from_dict(@, count_table_items(first[b], 1, 1))]

\* CountTable.__contains__
__contains__(tbl, key) == CountTable_getitem(tbl, key) # 0

\* CountTable.__len__
__len__(tbl) == count_table_count(tbl)

\* a Py_hash_t: the two's complement value of n in a word of HashBits bits
AsHash(n) ==
    LET u == n % (2 ^ HashBits) IN
    IF u >= 2 ^ (HashBits - 1) THEN u - 2 ^ HashBits ELSE u

\* the exclusive or of the low n bits of two non-negative numbers
RECURSIVE XorBits(_, _, _)
XorBits(a, b, n) ==
    IF n = 0 THEN 0
    ELSE ((a + b) % 2) + 2 * XorBits(a \div 2, b \div 2, n - 1)

\* a ^ b on Py_hash_t
Xor(a, b) == AsHash(XorBits(a % (2 ^ HashBits), b % (2 ^ HashBits), HashBits))

\* h >> n on the signed Py_hash_t: an arithmetic shift
ShiftRight(h, n) == h \div (2 ^ n)

\* the loop of __hash__ over the cells with a key
RECURSIVE HashCells(_, _)
HashCells(items, hash_value) ==
    IF items = << >> THEN hash_value
    ELSE HashCells(Tail(items),
                   Xor(Xor(hash_value, PyObject_Hash(Head(items).key)), Head(items).value))

\* CountTable.__hash__
__hash__(tbl) ==
    LET folded == HashCells(count_table_items(tbl, 1, 1), 0)
        mixed == Xor(folded, Xor(ShiftRight(folded, 11), ShiftRight(folded, 25))) IN
    AsHash(mixed * 69069 + 907133923)

\* CountTable(d): __init__ with a dict
CountTable(d) == _update_from_dict(_initialize_table, d)

SameObject(mem, a, free) == [mem |-> mem, inst |-> a]

\* CountTable._create_from(table): a new object whose struct is a copy of
\* the one at address a, allocated at the free address
_create_from(mem, a, free) ==
    [mem |-> [mem EXCEPT ![free] = count_table_copy(mem[a])], inst |-> free]

\* the addresses of the heap: one struct for each of the two objects
Addr == {1, 2}

\* two empty CountTable objects
TableIdle ==
    /\ heap = [a \in Addr |-> _initialize_table]
    /\ table = 1
    /\ other_table = 2

CloneSame(mem, a, free) == [mem |-> mem, inst |-> a]

\* CComposition.clone(): _create(self), the new object at the address free
clone(mem, a, free) == [mem |-> [mem EXCEPT ![free] = _create(mem[a])], inst |-> free]

\* CComposition.copy(): _create(None), then PyDict_Update(dup, self)
copy(mem, a, free) ==
    [mem |-> [mem EXCEPT ![free] = DictUpdate(_create(NoInst), mem[a])], inst |-> free]

\* two empty Composition objects
ObjIdle ==
    /\ objs = [a \in Addr |-> EmptyDict]
    /\ c_obj = 1
    /\ clone_obj = 2

(***************************************************************************)
(* The composition machine: two Composition objects, comp (the receiver)   *)
(* and other (the operand), and the outcome ret of the last call.          *)
(* ret = [op, kind, val, args]; val and args are << >> when not used.      *)
(***************************************************************************)
\* the keys used by the arithmetic machine
Keys == {H, O}

Counts == (0 - MaxCount)..MaxCount

InRange(d) == \A k \in DOMAIN d : d[k] \in Counts

\* plain mappings without zero values, as given to the constructor
Mappings(ks) ==
    UNION {[sub -> Counts \ {0}] : sub \in SUBSET ks}

NoRet == [op |-> "none", kind |-> "none", val |-> << >>, args |-> << >>]

NoMass == << >>

NoArgs == << >>

ParserIdle == formula = << >> /\ pc = "idle"

Init ==
    /\ comp = EmptyDict
    /\ other = EmptyDict
    /\ mass = NoMass
    /\ mass_args = NoArgs
    /\ ret = NoRet
    /\ ParserIdle
    /\ TableIdle
    /\ hash_seed = 1
    /\ ObjIdle

\* Composition(m): __init__ with a mapping, then _from_dict
Construct(m) ==
    /\ comp' = DictUpdate(EmptyDict, m)
    /\ mass' = NoMass
    /\ mass_args' = NoArgs
    /\ ret' = NoRet
    /\ UNCHANGED <<other, formula, pc, tvars, cvars>>

\* comp[key] = value
SetItem(key, value) ==
    /\ comp' = __setitem__(comp, key, value)
    /\ mass_args' = NoArgs
    /\ ret' = NoRet
    /\ UNCHANGED <<other, mass, formula, pc, tvars, cvars>>

\* del comp[key]: dict.__delitem__, which CComposition does not override
DelItem(key) ==
    /\ key \in DOMAIN comp
    /\ comp' = DictDel(comp, key)
    /\ ret' = NoRet
    /\ UNCHANGED <<other, mass, mass_args, formula, pc, tvars, cvars>>

\* comp += oth
IAdd(oth) ==
    /\ InRange(add_from(comp, oth))
    /\ comp' = add_from(comp, oth)
    /\ mass_args' = NoArgs
    /\ ret' = NoRet
    /\ UNCHANGED <<other, mass, formula, pc, tvars, cvars>>

\* comp -= oth
ISub(oth) ==
    /\ InRange(subtract_from(comp, oth))
    /\ comp' = subtract_from(comp, oth)
    /\ mass_args' = NoArgs
    /\ ret' = NoRet
    /\ UNCHANGED <<other, mass, formula, pc, tvars, cvars>>

\* comp *= rep: every store goes through setitem
IMul(rep) ==
    /\ InRange(__imul__(comp, rep))
    /\ comp' = __imul__(comp, rep)
    /\ mass_args' = IF DOMAIN comp = {} THEN mass_args ELSE NoArgs
    /\ ret' = NoRet
    /\ UNCHANGED <<other, mass, formula, pc, tvars, cvars>>

Returned(op, d) == [op |-> op, kind |-> "comp", val |-> <<d>>, args |-> << >>]

\* comp + other
Add ==
    /\ InRange(__add__(comp, other))
    /\ ret' = Returned("add", __add__(comp, other))
    /\ UNCHANGED <<comp, other, mass, mass_args, formula, pc, tvars, cvars>>

\* comp - other
Sub ==
    /\ InRange(__sub__(comp, other))
    /\ ret' = Returned("sub", __sub__(comp, other))
    /\ UNCHANGED <<comp, other, mass, mass_args, formula, pc, tvars, cvars>>

\* comp * rep
Mul(rep) ==
    /\ InRange(__mul__(comp, rep))
    /\ ret' = Returned("mul", __mul__(comp, rep))
    /\ UNCHANGED <<comp, other, mass, mass_args, formula, pc, tvars, cvars>>

\* -comp
Neg ==
    /\ ret' = Returned("neg", __neg__(comp))
    /\ UNCHANGED <<comp, other, mass, mass_args, formula, pc, tvars, cvars>>

\* other = <the composition just returned>
Take ==
    /\ ret.kind = "comp"
    /\ other' = ret.val[1]
    /\ ret' = NoRet
    /\ UNCHANGED <<comp, mass, mass_args, formula, pc, tvars, cvars>>

\* comp, other = other, comp (the operand has no cached mass in this machine)
Swap ==
    /\ comp' = other
    /\ other' = comp
    /\ mass' = NoMass
    /\ mass_args' = NoArgs
    /\ ret' = NoRet
    /\ UNCHANGED <<formula, pc, tvars, cvars>>

\* comp == other
Eq ==
    /\ ret' = [op |-> "eq", kind |-> "bool", val |-> <<__eq__(comp, other)>>, args |-> << >>]
    /\ UNCHANGED <<comp, other, mass, mass_args, formula, pc, tvars, cvars>>

\* comp != other
Ne ==
    /\ ret' = [op |-> "ne", kind |-> "bool", val |-> <<__ne__(comp, other)>>, args |-> << >>]
    /\ UNCHANGED <<comp, other, mass, mass_args, formula, pc, tvars, cvars>>

Multipliers == {0 - 1, 0, 2}

Next ==
    \/ \E m \in Mappings(Keys) : Construct(m)
    \/ \E k \in Keys, v \in Counts : SetItem(k, v)
    \/ \E k \in Keys : DelItem(k)
    \/ IAdd(other)
    \/ ISub(other)
    \/ \E n \in Multipliers : IMul(n)
    \/ Add
    \/ Sub
    \/ \E n \in Multipliers : Mul(n)
    \/ Neg
    \/ Take
    \/ Swap
    \/ Eq
    \/ Ne

Spec == Init /\ [][Next]_vars

\* the operators alone, on operands built by the constructor or returned by
\* an operator.  comp += comp and comp -= comp: PyDict_Next reads each entry
\* of the operand before the loop body overwrites it and no key is inserted,
\* so the loop adds the counts the operand had at the call
FrameNext ==
    \/ \E m \in Mappings(Keys) : Construct(m)
    \/ IAdd(other)
    \/ ISub(other)
    \/ IAdd(comp)
    \/ ISub(comp)
    \/ Add
    \/ Sub
    \/ \E n \in Multipliers : Mul(n)
    \/ Neg
    \/ Take
    \/ Swap

FrameSpec == Init /\ [][FrameNext]_vars

\* comp[key] = value, the call recorded
Assign(key, value) ==
    /\ comp' = __setitem__(comp, key, value)
    /\ mass_args' = NoArgs
    /\ ret' = [op |-> "setitem", kind |-> "ok", val |-> << >>, args |-> <<key, value>>]
    /\ UNCHANGED <<other, mass, formula, pc, tvars, cvars>>

\* comp[key]
GetItem(key) ==
    /\ ret' = [op |-> "getitem", kind |-> "ok", val |-> <<__getitem__(comp, key)>>,
               args |-> <<key>>]
    /\ UNCHANGED <<comp, other, mass, mass_args, formula, pc, tvars, cvars>>

\* item assignment and item reads on compositions built by the constructor
\* and by +=, which may leave a zero stored
ItemNext ==
    \/ \E m \in Mappings(Keys) : Construct(m)
    \/ Swap
    \/ IAdd(other)
    \/ \E k \in Keys, v \in Counts : Assign(k, v)
    \/ \E k \in Keys : GetItem(k)

ItemSpec == Init /\ [][ItemNext]_vars

BoolRet(op, val, args) == [op |-> op, kind |-> "bool", val |-> val, args |-> args]

\* (comp + (-comp)) == Composition() and Composition() == (comp + (-comp))
AddInverse ==
    \E s \in {__add__(comp, __neg__(comp))} :
    /\ ret' = BoolRet("add_neg", <<__eq__(s, _create(NoInst)), __eq__(_create(NoInst), s)>>, <<s>>)
    /\ UNCHANGED <<comp, other, mass, mass_args, formula, pc, tvars, cvars>>

\* the sums (comp + other) + third, comp + (other + third) and
\* (comp + third) + other, compared with == in every order; the call is
\* recorded with the keys of third
Regroup(third) ==
    \E l \in {__add__(__add__(comp, other), third)},
       m \in {__add__(comp, __add__(other, third))},
       r \in {__add__(__add__(comp, third), other)} :
    /\ ret' = BoolRet("regroup", <<__eq__(l, m), __eq__(m, l), __eq__(l, r),
                                  __eq__(r, l), __eq__(m, r), __eq__(r, m)>>, <<DOMAIN third>>)
    /\ UNCHANGED <<comp, other, mass, mass_args, formula, pc, tvars, cvars>>

\* comp == other, other == comp, comp != other and other != comp
EqBoth ==
    /\ ret' = BoolRet("eq_both", <<__eq__(comp, other), __eq__(other, comp),
                                  __ne__(comp, other), __ne__(other, comp)>>, << >>)
    /\ UNCHANGED <<comp, other, mass, mass_args, formula, pc, tvars, cvars>>

\* the comparisons of compositions built by the constructor, += and *=
SymNext ==
    \/ \E m \in Mappings(Keys) : Construct(m)
    \/ Swap
    \/ IAdd(other)
    \/ \E n \in Multipliers : IMul(n)
    \/ EqBoth

SymSpec == Init /\ [][SymNext]_vars

\* the laws of + on compositions built by the constructor and by +=
LawNext ==
    \/ \E m \in Mappings(Keys) : Construct(m)
    \/ Swap
    \/ IAdd(other)
    \/ AddInverse
    \/ \E m \in Mappings(Keys) : Regroup(m)

LawSpec == Init /\ [][LawNext]_vars

(***************************************************************************)
(* Compositions as objects: c and the object bound to the name clone,      *)
(* each a dict at its own address of objs.                                 *)
(***************************************************************************)
\* what a step on the objects leaves alone
ObjFrame == UNCHANGED <<comp, other, mass, mass_args, formula, pc, tvars>>

\* the address a rebinding of the name clone frees
FreeObj == CHOOSE f \in Addr : f # c_obj

ObjRet(op, target) == [op |-> op, kind |-> "ok", val |-> << >>, args |-> <<target>>]

\* the dict of the object at address target becomes d
ObjStore(target, d) ==
    /\ InRange(d)
    /\ objs' = [objs EXCEPT ![target] = d]
    /\ ret' = ObjRet("mutate", target)
    /\ UNCHANGED <<c_obj, clone_obj>>
    /\ ObjFrame

\* target[key] = value
ObjSetItem(target, key, value) == ObjStore(target, __setitem__(objs[target], key, value))

\* target += m
ObjIAdd(target, m) == ObjStore(target, add_from(objs[target], m))

\* target -= m
ObjISub(target, m) == ObjStore(target, subtract_from(objs[target], m))

\* target *= rep
ObjIMul(target, rep) == ObjStore(target, __imul__(objs[target], rep))

\* clone = c.clone()
ObjClone ==
    \E r \in {clone(objs, c_obj, FreeObj)} :
    /\ objs' = r.mem
    /\ clone_obj' = r.inst
    /\ ret' = ObjRet("clone", r.inst)
    /\ UNCHANGED c_obj
    /\ ObjFrame

\* clone = c.copy()
ObjCopy ==
    \E r \in {copy(objs, c_obj, FreeObj)} :
    /\ objs' = r.mem
    /\ clone_obj' = r.inst
    /\ ret' = ObjRet("copy", r.inst)
    /\ UNCHANGED c_obj
    /\ ObjFrame

CloneNext ==
    \/ ObjClone
    \/ ObjCopy
    \/ \E t \in {c_obj, clone_obj} :
           \/ \E k \in Keys, v \in Counts : ObjSetItem(t, k, v)
           \/ \E m \in Mappings(Keys) : ObjIAdd(t, m)
           \/ \E m \in Mappings(Keys) : ObjISub(t, m)
           \/ \E n \in Multipliers : ObjIMul(t, n)

CloneSpec == Init /\ [][CloneNext]_vars

(***************************************************************************)
(* Mass data.  A table maps an element name to its isotopes, and each      *)
(* isotope number to <<mass, abundance>>; isotope 0 is the default row.    *)
(* Masses are whole multiples of MassUnit and abundances are counted in    *)
(* parts of Whole, so that every product and every division by a charge    *)
(* of the model is exact in integer arithmetic.  A monoisotopic term       *)
(* count * mass is carried as count * mass * Whole, the abundance of a     *)
(* row that stands for the whole element.                                  *)
(***************************************************************************)
Whole == 10

MassUnit == 12

nist_mass ==
    (H  :> (0 :> <<MassUnit, Whole>> @@ 1 :> <<MassUnit, 9>> @@ 2 :> <<2 * MassUnit, 1>>))
 @@ (Hp :> (0 :> <<MassUnit, Whole>> @@ 1 :> <<MassUnit, Whole>>))
 @@ (C  :> (0 :> <<12 * MassUnit, Whole>> @@ 12 :> <<12 * MassUnit, 9>>
            @@ 13 :> <<13 * MassUnit, 1>>))
 @@ (O  :> (0 :> <<16 * MassUnit, Whole>> @@ 16 :> <<16 * MassUnit, Whole>>))

\* a table supplied by the caller, which also knows the element X
other_mass ==
    (H  :> (0 :> <<2 * MassUnit, Whole>> @@ 1 :> <<2 * MassUnit, Whole>>))
 @@ (Hp :> (0 :> <<MassUnit, Whole>> @@ 1 :> <<MassUnit, Whole>>))
 @@ (X  :> (0 :> <<5 * MassUnit, Whole>> @@ 7 :> <<5 * MassUnit, 5>> @@ 8 :> <<7 * MassUnit, 5>>))

\* id(mass_data) of the two tables
MassTables == (1 :> nist_mass) @@ (2 :> other_mass)

Abs(n) == IF n < 0 THEN 0 - n ELSE n

RECURSIVE SumOver(_, _, _)
SumOver(f, todo, acc) ==
    IF todo = {} THEN acc
    ELSE LET x == CHOOSE y \in todo : TRUE IN SumOver(f, todo \ {x}, acc + f[x])

\* what one key of the composition adds to the mass, or how the lookup fails
KeyTerm(composition, isotope_string, average, mass_provider) ==
    LET p == _parse_isotope_string(isotope_string)
        element_name == p.element_name
        isotope_num == p.isotope_num
    IN  IF isotope_num = 0 /\ average # 0
        THEN IF element_name \notin DOMAIN mass_provider
             THEN [kind |-> "KeyError", val |-> 0]
             ELSE LET rows == mass_provider[element_name]
                      isotopes == (DOMAIN rows) \ {0}
                      quantity == getitem(composition, element_name)
                      terms == [isotope \in isotopes |->
                                   quantity * rows[isotope][1] * rows[isotope][2]]
                  IN  [kind |-> "ok", val |-> SumOver(terms, isotopes, 0)]
        ELSE IF element_name \notin DOMAIN mass_provider
             THEN [kind |-> "crash", val |-> 0]
             ELSE IF isotope_num \notin DOMAIN mass_provider[element_name]
             THEN [kind |-> "crash", val |-> 0]
             ELSE [kind |-> "ok",
                   val |-> getitem(composition, isotope_string)
                            * mass_provider[element_name][isotope_num][1] * Whole]

RestoreNever(composition, old_charge) == composition

\* the end of calculate_mass: H+ gets its old count back, or is deleted
RestoreCharge(composition, old_charge) ==
    IF old_charge # 0 THEN setitem(composition, Hp, old_charge)
    ELSE DictDel(composition, Hp)

\* calculate_mass(composition, average, charge, mass_data): the set of
\* outcomes [kind, val, comp, stored], comp being the composition's dict
\* when the call ends and stored telling whether setitem was reached.
\* charge is << >> for None and <<c>> for the integer c.  The keys are
\* visited in dict order, so the first lookup to fail may be any failing one.
calculate_mass(composition, average, charge, mass_provider) ==
    LET hp == getitem(composition, Hp) IN
    IF charge # << >> /\ charge[1] # 0 /\ hp # 0
    THEN {[kind |-> "ChemicalCompositionError", val |-> 0,
           comp |-> composition, stored |-> FALSE]}
    ELSE LET _charge == IF charge = << >> THEN hp ELSE charge[1]
             old_charge == hp
             working == setitem(composition, Hp, _charge)
             key_list == DOMAIN working
             terms == [k \in key_list |-> KeyTerm(working, k, average, mass_provider)]
             failing == {k \in key_list : terms[k].kind # "ok"}
             total == SumOver([k \in key_list |-> terms[k].val], key_list, 0)
         IN  IF failing # {}
             THEN {[kind |-> terms[k].kind, val |-> 0,
                    comp |-> working, stored |-> TRUE] : k \in failing}
             ELSE {[kind |-> "ok",
                    val |-> IF _charge # 0 THEN total \div Abs(_charge) ELSE total,
                    comp |-> RestoreCharge(working, old_charge), stored |-> TRUE]}

CacheHit(args) == mass_args # NoArgs /\ mass_args = args

QueryRet(kind, val, args) ==
    [op |-> "calc_mass", kind |-> kind, val |-> val, args |-> args]

\* comp.calc_mass(average, charge, mass_data), mass_data being table mdid
CalcMass(average, charge, mdid) ==
    LET args == <<average, charge, mdid>> IN
    /\ pc # "crashed"
    /\ IF CacheHit(args)
       THEN /\ ret' = IF mass = NoMass
                      THEN QueryRet("TypeError", << >>, args)
                      ELSE QueryRet("ok", mass, args)
            /\ UNCHANGED <<comp, other, mass, mass_args, formula, pc, tvars, cvars>>
       ELSE \E r \in calculate_mass(comp, average, charge, MassTables[mdid]) :
            /\ comp' = r.comp
            /\ mass_args' = IF r.stored THEN NoArgs ELSE args
            /\ mass' = IF r.kind = "ok" THEN <<r.val>> ELSE mass
            /\ ret' = QueryRet(r.kind, IF r.kind = "ok" THEN <<r.val>> ELSE << >>, args)
            /\ pc' = IF r.kind = "crash" THEN "crashed" ELSE pc
            /\ UNCHANGED <<other, formula, tvars, cvars>>

\* comp.update(m): dict.update, then the cache arguments are dropped
Update(m) ==
    /\ comp' = DictUpdate(comp, m)
    /\ mass_args' = NoArgs
    /\ ret' = NoRet
    /\ UNCHANGED <<other, mass, formula, pc, tvars, cvars>>

\* the keys used by the mass machine: the charge carrier and one element
\* that only the caller's table knows
MassKeys == {Hp, X}

Charges == {<< >>} \cup {<<c>> : c \in (0 - 1)..MaxCharge}

\* the operands of += and -= in the mass machine: one atom of one key
Atoms == {k :> 1 : k \in MassKeys}

Running == pc # "crashed"

MassNext ==
    \/ \E k \in MassKeys, v \in Counts : Running /\ SetItem(k, v)
    \/ \E k \in MassKeys : Running /\ DelItem(k)
    \/ \E m \in Atoms : Running /\ IAdd(m)
    \/ \E m \in Atoms : Running /\ ISub(m)
    \/ \E n \in {0 - 1, 0} : Running /\ IMul(n)
    \/ \E m \in Atoms : Running /\ Update(m)
    \/ \E average \in {0, 1}, charge \in Charges, mdid \in DOMAIN MassTables :
          CalcMass(average, charge, mdid)

MassSpec == Init /\ [][MassNext]_vars

(***************************************************************************)
(* The formula parser.  An outcome is [kind, reason, comp]: kind "ok" with *)
(* the dict built, or the exception raised, in which case no object is     *)
(* constructed and comp is empty.                                          *)
(***************************************************************************)
Parsed(d) == [kind |-> "ok", reason |-> "", comp |-> d]

Raise(kind, reason) == [kind |-> kind, reason |-> reason, comp |-> EmptyDict]

CharAt(s, p) == IF p >= 1 /\ p <= Len(s) THEN s[p] ELSE ""

\* the position after the longest run of characters of a class from p on
RECURSIVE RunEnd(_, _, _)
RunEnd(s, p, lower) ==
    IF p <= Len(s) /\ (IF lower THEN IsLowerOrPlus(s[p]) ELSE IsDigit(s[p]))
    THEN RunEnd(s, p + 1, lower) ELSE p

\* (?:\[(\d+)\])? at position p: the position after "[digits]", or p
IsotopeEnd(s, p) ==
    LET d == RunEnd(s, p + 1, FALSE) IN
    IF CharAt(s, p) = "[" /\ d > p + 1 /\ CharAt(s, d) = "]" THEN d + 1 ELSE p

\* ([+-]?\d+)? at position p: the positions where a count may end
\* (p itself when the group matches nothing)
CountEnds(s, p) ==
    LET q == IF CharAt(s, p) \in {"+", "-"} THEN p + 1 ELSE p
        d == RunEnd(s, q, FALSE)
    IN  {p} \cup {e \in (q + 1)..d : TRUE}

\* the positions where one match of _atom starting at p may end
AtomEnds(s, p) ==
    IF ~IsUpper(CharAt(s, p)) THEN {}
    ELSE UNION {CountEnds(s, IsotopeEnd(s, n)) \cup CountEnds(s, n) :
                   n \in (p + 1)..RunEnd(s, p + 1, TRUE)}

\* formula_pattern.match: ^(atom)*$ with backtracking
RECURSIVE MatchFrom(_, _)
MatchFrom(s, p) ==
    \/ p = Len(s) + 1
    \/ \E e \in AtomEnds(s, p) : MatchFrom(s, e)

\* re.findall(_atom, formula): leftmost greedy matches, skipping any
\* character that starts no atom; each match gives (elem, isotope, number)
RECURSIVE FindAll(_, _)
FindAll(s, p) ==
    IF p > Len(s) THEN << >>
    ELSE IF ~IsUpper(s[p]) THEN FindAll(s, p + 1)
    ELSE LET n == RunEnd(s, p + 1, TRUE)
             b == IsotopeEnd(s, n)
             q == IF CharAt(s, b) \in {"+", "-"} THEN b + 1 ELSE b
             d == RunEnd(s, q, FALSE)
             e == IF d > q THEN d ELSE b
         IN  << [elem    |-> Slice(s, p - 1, n - 1),
                 isotope |-> IF b > n THEN Slice(s, n, b - 2) ELSE << >>,
                 number  |-> Slice(s, b - 1, e - 1)] >> \o FindAll(s, e)

\* the loop of _from_formula over the matches
RECURSIVE FlatLoop(_, _, _)
FlatLoop(self, tokens, mass_data) ==
    IF tokens = << >> THEN Parsed(self)
    ELSE LET t == Head(tokens) IN
         IF t.elem \notin DOMAIN mass_data
         THEN Raise("ChemicalCompositionError", "Unknown chemical element")
         ELSE FlatLoop(
                AddCount(self,
                         _make_isotope_string(t.elem,
                             IF t.isotope # << >> THEN IntOf(t.isotope) ELSE 0),
                         IF t.number # << >> THEN IntOf(t.number) ELSE 1),
                Tail(tokens), mass_data)

HasChar(s, c) == \E p \in 1..Len(s) : s[p] = c

\* formula.rfind('[', 0, i): the largest index below i holding '[', or -1
RFindBracket(s, i) ==
    LET found == {j \in 0..(i - 1) : s[j + 1] = "["} IN
    IF found = {} THEN 0 - 1 ELSE CHOOSE j \in found : \A j2 \in found : j2 <= j

\* formula.endswith(element_name, 0, end)
EndsWith(s, name, end) ==
    Len(name) <= end /\ Slice(s, end - Len(name), end) = name

\* the first name, longest first, that ends formula[0:end]; << >> when none
LongestElement(s, end, mass_data) ==
    LET fits == {name \in DOMAIN mass_data : EndsWith(s, name, end)} IN
    IF fits = {} THEN << >>
    ELSE CHOOSE name \in fits : \A n2 \in fits : Len(n2) <= Len(name)

\* for chunk in resolve_stack: for elem, cnt in chunk.items(): self[elem] += cnt
RECURSIVE MergeChunk(_, _, _)
MergeChunk(self, chunk, todo) ==
    IF todo = {} THEN self
    ELSE LET elem == CHOOSE k \in todo : TRUE IN
         MergeChunk(AddCount(self, elem, chunk[elem]), chunk, todo \ {elem})

RECURSIVE Unspool(_, _)
Unspool(self, resolve_stack) ==
    IF resolve_stack = << >> THEN self
    ELSE Unspool(MergeChunk(self, Head(resolve_stack), DOMAIN Head(resolve_stack)),
                 Tail(resolve_stack))

\* the multiplier read when a ')' is met outside a group: 1 when nothing
\* follows the ')', the number when a digit follows it, and otherwise the
\* value group_coef already had.  << >> when int() raises ValueError.
GroupCoef(s, i, prev, group_coef) ==
    IF i + 1 = prev THEN <<1>>
    ELSE IF IsDigit(PyChar(s, i + 1))
         THEN IF IntValid(Slice(s, i + 1, prev)) THEN <<IntOf(Slice(s, i + 1, prev))>>
              ELSE << >>
    ELSE <<group_coef>>

RECURSIVE ParensLoop(_, _, _)
RECURSIVE _from_formula(_, _)

\* the while loop of _from_formula_parens; st holds its local variables
ParensLoop(s, mass_data, st) ==
    LET i == st.i IN
    IF i < 0 THEN Parsed(Unspool(st.self, st.resolve_stack))
    ELSE IF st.seek_mode < 1
    THEN IF PyChar(s, i) = ")"
         THEN LET coef == GroupCoef(s, i, st.prev, st.group_coef) IN
              IF coef = << >> THEN Raise("ValueError", "invalid literal for int()")
              ELSE ParensLoop(s, mass_data,
                     [st EXCEPT !.seek_mode = @ + 1, !.group_coef = coef[1], !.i = i - 1])
         ELSE IF IsDigit(PyChar(s, i)) \/ PyChar(s, i) = "-"
         THEN ParensLoop(s, mass_data, [st EXCEPT !.i = i - 1])
         ELSE LET number == Slice(s, i + 1, st.prev)
                  has_isotope == PyChar(s, i) = "]"
                  brace_pos == RFindBracket(s, i)
                  isotope == Slice(s, brace_pos + 1, i)
                  i2 == IF has_isotope THEN brace_pos - 1 ELSE i
              IN  IF i + 1 # st.prev /\ ~IntValid(number)
                  THEN Raise("ChemicalCompositionError", "Badly-formed number of atoms")
                  ELSE IF has_isotope /\ (brace_pos = 0 - 1 \/ ~IntValid(isotope))
                  THEN Raise("ChemicalCompositionError", "Badly-formed isotope number")
                  ELSE LET num_atoms == IF i + 1 = st.prev THEN 1 ELSE IntOf(number)
                           isotope_num == IF has_isotope THEN IntOf(isotope) ELSE 0
                           element_name == LongestElement(s, i2 + 1, mass_data)
                       IN  IF element_name = << >>
                           THEN Raise("ChemicalCompositionError", "Unknown chemical element")
                           ELSE ParensLoop(s, mass_data,
                                  [st EXCEPT
                                     !.self = AddCount(@,
                                                _make_isotope_string(element_name, isotope_num),
                                                num_atoms),
                                     !.i = i2 - Len(element_name),
                                     !.prev = i2 - Len(element_name) + 1])
    ELSE LET ch == PyChar(s, i)
             parse_stack == Append(st.parse_stack, ch)
             i1 == i - 1
         IN  IF ch = "("
             THEN IF st.seek_mode - 1 = 0
                  THEN LET inner == _from_formula(
                                      Reverse(SubSeq(parse_stack, 1, Len(parse_stack) - 1)),
                                      mass_data)
                       IN  IF inner.kind # "ok" THEN inner
                           ELSE ParensLoop(s, mass_data,
                                  [st EXCEPT
                                     !.resolve_stack =
                                         Append(@, __mul__(inner.comp, st.group_coef)),
                                     !.prev = i1 + 1,
                                     !.seek_mode = 0,
                                     !.parse_stack = << >>,
                                     !.i = i1])
                  ELSE ParensLoop(s, mass_data,
                         [st EXCEPT !.seek_mode = @ - 1, !.parse_stack = parse_stack,
                                    !.i = i1])
             ELSE IF PyChar(s, i1) = ")"
             THEN ParensLoop(s, mass_data,
                    [st EXCEPT !.seek_mode = @ + 1, !.parse_stack = parse_stack, !.i = i1])
             ELSE ParensLoop(s, mass_data,
                    [st EXCEPT !.parse_stack = parse_stack, !.i = i1])

_from_formula_parens(s, mass_data) ==
    ParensLoop(s, mass_data,
               [i |-> Len(s) - 1, prev |-> Len(s), seek_mode |-> 0, parse_stack |-> << >>,
                resolve_stack |-> << >>, group_coef |-> 1, self |-> EmptyDict])

\* Composition(formula=s, mass_data=mass_data): __init__, then _from_formula
_from_formula(s, mass_data) ==
    IF HasChar(s, "(") THEN _from_formula_parens(s, mass_data)
    ELSE IF ~MatchFrom(s, 1) THEN Raise("ChemicalCompositionError", "Invalid formula")
    ELSE FlatLoop(EmptyDict, FindAll(s, 1), mass_data)

(***************************************************************************)
(* The parser machine: a formula text is given and the constructor parses  *)
(* it.  Texts are concatenations of a few pieces.                          *)
(***************************************************************************)
RECURSIVE Concat(_)
Concat(ps) == IF ps = << >> THEN << >> ELSE Head(ps) \o Concat(Tail(ps))

Texts(pieces, n) == {Concat(ps) : ps \in UNION {[1..m -> pieces] : m \in 0..n}}

GroupPieces ==
    {<<"(">>, <<")">>, C, H, <<"2">>, <<"3">>, <<"-", "2">>,
     <<"(", "C", ")">>, <<"(", "H", ")">>, <<"(", "C", "H", "2", ")">>, <<"6">>}

FlatPieces ==
    {C, H, O, <<"+">>, <<"[", "1", "3", "]">>, <<"2">>, <<"4">>, <<"-", "2">>, <<"-", "1">>}

ParseInit(texts) ==
    /\ comp = EmptyDict
    /\ other = EmptyDict
    /\ mass = NoMass
    /\ mass_args = NoArgs
    /\ ret = NoRet
    /\ formula \in texts
    /\ pc = "text"
    /\ TableIdle
    /\ hash_seed = 1
    /\ ObjIdle

\* comp = Composition(formula=formula)
FromFormula ==
    /\ pc = "text"
    /\ LET r == _from_formula(formula, nist_mass) IN
       /\ comp' = r.comp
       /\ ret' = [op |-> "from_formula", kind |-> r.kind, val |-> <<r.reason>>, args |-> << >>]
    /\ pc' = "parsed"
    /\ UNCHANGED <<other, mass, mass_args, formula, tvars, cvars>>

\* comp = Composition(m, formula=formula): __init__ takes the formula branch
\* and never looks at the mapping
ConstructBoth(m) ==
    /\ pc = "text"
    /\ LET r == _from_formula(formula, nist_mass) IN
       /\ comp' = r.comp
       /\ ret' = [op |-> "init_both", kind |-> r.kind, val |-> <<r.reason>>, args |-> <<m>>]
    /\ pc' = "parsed"
    /\ UNCHANGED <<other, mass, mass_args, formula, tvars, cvars>>

ParseSpec == ParseInit(Texts(GroupPieces, MaxPieces)) /\ [][FromFormula]_vars

FlatSpec == ParseInit(Texts(FlatPieces, MaxFlatPieces)) /\ [][FromFormula]_vars

\* the constructor called with a formula alone, or with a formula and a
\* mapping of one element
InitNext ==
    \/ FromFormula
    \/ \E m \in Mappings({H}) \ {EmptyDict} : ConstructBoth(m)

InitSpec == ParseInit(Texts(FlatPieces, MaxInitPieces)) /\ [][InitNext]_vars

(***************************************************************************)
(* The count table machine: two CountTable objects, table (the receiver)   *)
(* and other_table (the operand), each the address of its struct in heap.  *)
(***************************************************************************)
\* the keys used by the count table machine
TableKeys == {H, O}

TableValues == (0 - MaxValue)..MaxValue

\* plain dicts over the keys, as sequences of items in iteration order
PlainDicts ==
    {<< >>}
    \cup {<<[key |-> k, value |-> v]>> : k \in TableKeys, v \in TableValues}
    \cup UNION {{<<[key |-> k, value |-> v], [key |-> j, value |-> w]>> :
                    j \in TableKeys \ {k}, v \in TableValues, w \in TableValues} :
                k \in TableKeys}

\* the dict itself
AsMapping(d) == [k \in {d[n].key : n \in 1..Len(d)} |->
                    d[CHOOSE n \in 1..Len(d) : d[n].key = k].value]

\* the values fit the model and no more than MaxUsed cells were written
RECURSIVE UsedFrom(_, _)
UsedFrom(tbl, i) == IF i > tbl.size THEN 0 ELSE tbl.bins[i].used + UsedFrom(tbl, i + 1)

TableInRange(tbl) ==
    /\ UsedFrom(tbl, 1) <= MaxUsed
    /\ \A i \in 1..tbl.size :
           \A j \in 1..tbl.bins[i].used : tbl.bins[i].cells[j].value \in TableValues

\* the address of the temporary object of an operator that returns a table
Temp == Cardinality(Addr) + 1

\* the heap with a struct for the temporary
WithTemp(mem) == [a \in Addr \cup {Temp} |-> IF a \in Addr THEN mem[a] ELSE _initialize_table]

\* what an operator leaves in the heap once its temporary is returned
WithoutTemp(mem) == [a \in Addr |-> mem[a]]

\* the address a rebinding of the variable holding a frees
FreeAfter(a) == CHOOSE f \in Addr : f # IF a = table THEN other_table ELSE table

TableRet(op, kind, val) == [op |-> op, kind |-> kind, val |-> val, args |-> << >>]

\* what no count table operation touches
CompositionIdle == UNCHANGED <<comp, other, mass, mass_args, formula, pc, hash_seed, cvars>>

\* the receiver's struct becomes tbl (\E over a singleton binds a value that
\* is computed once)
Store(tbl) ==
    \E stored \in {tbl} :
        /\ TableInRange(stored)
        /\ heap' = [heap EXCEPT ![table] = stored]
        /\ UNCHANGED <<table, other_table>>
        /\ CompositionIdle

TableInit ==
    /\ comp = EmptyDict
    /\ other = EmptyDict
    /\ mass = NoMass
    /\ mass_args = NoArgs
    /\ ret = NoRet
    /\ ParserIdle
    /\ TableIdle
    /\ hash_seed \in {1, 2}
    /\ ObjIdle

\* table[key] = value
TableSetItem(key, value) ==
    /\ Store(CountTable_setitem(heap[table], key, value))
    /\ ret' = NoRet

\* table.increment(key, value)
TableIncrement(key, value) ==
    /\ Store(count_table_increment(heap[table], key, value))
    /\ ret' = NoRet

\* table.decrement(key, value)
TableDecrement(key, value) ==
    /\ Store(count_table_decrement(heap[table], key, value))
    /\ ret' = NoRet

\* table.pop(key)
TablePop(key) ==
    \E r \in {CountTable_pop(heap[table], key)} :
    /\ Store(r.table)
    /\ ret' = TableRet("pop", r.kind, IF r.kind = "ok" THEN <<r.value>> ELSE << >>)

\* del table[key]: __delitem__ calls pop(key)
TableDelItem(key) ==
    \E r \in {CountTable_pop(heap[table], key)} :
    /\ Store(r.table)
    /\ ret' = TableRet("delitem", r.kind, << >>)

\* table *= value
TableIMul(value) ==
    /\ Store(count_table_scale(heap[table], value))
    /\ ret' = NoRet

\* table.clear()
TableClear ==
    /\ Store(count_table_clear(heap[table]))
    /\ ret' = NoRet

\* table += b, b being the address of the operand
TableIAdd(b) ==
    \E mem \in {count_table_add(heap, table, b, 1, 1)} :
    /\ \A a \in Addr : TableInRange(mem[a])
    /\ heap' = mem
    /\ ret' = TableRet("iadd", "ok", << >>)
    /\ UNCHANGED <<table, other_table>>
    /\ CompositionIdle

\* table -= b
TableISub(b) ==
    \E mem \in {count_table_subtract(heap, table, b, 1, 1)} :
    /\ \A a \in Addr : TableInRange(mem[a])
    /\ heap' = mem
    /\ ret' = TableRet("isub", "ok", << >>)
    /\ UNCHANGED <<table, other_table>>
    /\ CompositionIdle

\* table + other_table: a copy of the receiver, then _add_from
TableAdd ==
    \E dup \in {_create_from(WithTemp(heap), table, Temp)} :
    \E mem \in {count_table_add(dup.mem, dup.inst, other_table, 1, 1)} :
    /\ \A a \in Addr : TableInRange(mem[a])
    /\ heap' = WithoutTemp(mem)
    /\ ret' = TableRet("table_add", "table", <<mem[dup.inst]>>)
    /\ UNCHANGED <<table, other_table>>
    /\ CompositionIdle

\* table - other_table
TableSub ==
    \E dup \in {_create_from(WithTemp(heap), table, Temp)} :
    \E mem \in {count_table_subtract(dup.mem, dup.inst, other_table, 1, 1)} :
    /\ \A a \in Addr : TableInRange(mem[a])
    /\ heap' = WithoutTemp(mem)
    /\ ret' = TableRet("table_sub", "table", <<mem[dup.inst]>>)
    /\ UNCHANGED <<table, other_table>>
    /\ CompositionIdle

\* a == b, a and b being the two tables in either order
TableEq(a, b) ==
    /\ ret' = TableRet("table_eq", "bool", <<count_table_equals(heap[a], heap[b])>>)
    /\ UNCHANGED <<heap, table, other_table>>
    /\ CompositionIdle

\* other_table = table.copy()
TableCopy ==
    \E dup \in {_create_from(heap, table, FreeAfter(other_table))} :
    /\ heap' = dup.mem
    /\ other_table' = dup.inst
    /\ ret' = TableRet("copy", "ok", << >>)
    /\ UNCHANGED table
    /\ CompositionIdle

\* table = other_table.copy()
TableCopyBack ==
    \E dup \in {_create_from(heap, other_table, FreeAfter(table))} :
    /\ heap' = dup.mem
    /\ table' = dup.inst
    /\ ret' = TableRet("copy_back", "ok", << >>)
    /\ UNCHANGED other_table
    /\ CompositionIdle

\* other_table[key] = value
TableOtherSetItem(key, value) ==
    \E stored \in {CountTable_setitem(heap[other_table], key, value)} :
    /\ TableInRange(stored)
    /\ heap' = [heap EXCEPT ![other_table] = stored]
    /\ ret' = NoRet
    /\ UNCHANGED <<table, other_table>>
    /\ CompositionIdle

\* del other_table[key]
TableOtherDelItem(key) ==
    \E r \in {CountTable_pop(heap[other_table], key)} :
    /\ TableInRange(r.table)
    /\ heap' = [heap EXCEPT ![other_table] = r.table]
    /\ ret' = TableRet("delitem", r.kind, << >>)
    /\ UNCHANGED <<table, other_table>>
    /\ CompositionIdle

\* table + d, d a plain dict
TableAddDict(d) ==
    \E dup \in {_create_from(WithTemp(heap), table, Temp)} :
    \E sum \in {_add_from_dict(dup.mem[dup.inst], d)} :
    \E mem \in {[dup.mem EXCEPT ![dup.inst] = sum]} :
    /\ \A a \in Addr : TableInRange(mem[a])
    /\ heap' = WithoutTemp(mem)
    /\ ret' = TableRet("add_dict", "table", <<sum>>)
    /\ UNCHANGED <<table, other_table>>
    /\ CompositionIdle

\* table - d
TableSubDict(d) ==
    \E dup \in {_create_from(WithTemp(heap), table, Temp)} :
    \E diff \in {_subtract_from_dict(dup.mem[dup.inst], d)} :
    \E mem \in {[dup.mem EXCEPT ![dup.inst] = diff]} :
    /\ \A a \in Addr : TableInRange(mem[a])
    /\ heap' = WithoutTemp(mem)
    /\ ret' = TableRet("sub_dict", "table", <<diff>>)
    /\ UNCHANGED <<table, other_table>>
    /\ CompositionIdle

\* table += d
TableIAddDict(d) ==
    /\ Store(_add_from_dict(heap[table], d))
    /\ ret' = TableRet("iadd_dict", "ok", << >>)

\* table -= d
TableISubDict(d) ==
    /\ Store(_subtract_from_dict(heap[table], d))
    /\ ret' = TableRet("isub_dict", "ok", << >>)

TableNext ==
    \/ \E k \in TableKeys, v \in TableValues : TableSetItem(k, v)
    \/ \E k \in TableKeys, v \in TableValues : TableIncrement(k, v)
    \/ \E k \in TableKeys, v \in TableValues : TableDecrement(k, v)
    \/ \E k \in TableKeys : TablePop(k)
    \/ \E k \in TableKeys : TableDelItem(k)
    \/ \E n \in Multipliers : TableIMul(n)
    \/ TableClear

TableSpec == TableInit /\ [][TableNext]_vars

\* one table and plain dicts as operands
DictNext ==
    \/ \E k \in TableKeys, v \in TableValues : TableSetItem(k, v)
    \/ \E k \in TableKeys : TableDelItem(k)
    \/ \E d \in PlainDicts : TableAddDict(d)
    \/ \E d \in PlainDicts : TableSubDict(d)
    \/ \E d \in PlainDicts : TableIAddDict(d)
    \/ \E d \in PlainDicts : TableISubDict(d)

DictSpec == TableInit /\ [][DictNext]_vars

\* two tables built by stores
PairBuild ==
    \/ \E k \in TableKeys, v \in TableValues : TableSetItem(k, v)
    \/ \E k \in TableKeys, v \in TableValues : TableOtherSetItem(k, v)

\* the arithmetic of two tables, the operand having removed cells
PairNext ==
    \/ PairBuild
    \/ \E k \in TableKeys : TableOtherDelItem(k)
    \/ TableIAdd(other_table)
    \/ TableISub(other_table)
    \/ TableAdd
    \/ TableSub

PairSpec == TableInit /\ [][PairNext]_vars

\* the comparison of two tables in both orders, one having removed cells
EqNext ==
    \/ PairBuild
    \/ \E k \in TableKeys : TableDelItem(k)
    \/ TableEq(table, other_table)
    \/ TableEq(other_table, table)

EqSpec == TableInit /\ [][EqNext]_vars

\* a table and its copy, either of them being the receiver of what follows
CopyNext ==
    \/ TableNext
    \/ TableCopy
    \/ TableCopyBack

CopySpec == TableInit /\ [][CopyNext]_vars

\* -table: __neg__ returns self._scale_by(-1), which scales the receiver
\* itself and, being a void function, hands back no table
TableNeg ==
    /\ Store(count_table_scale(heap[table], 0 - 1))
    /\ ret' = TableRet("table_neg", "none", << >>)

\* table * value: a copy of the receiver, then _scale_by
TableMul(value) ==
    \E dup \in {_create_from(WithTemp(heap), table, Temp)} :
    \E mem \in {[dup.mem EXCEPT ![dup.inst] = count_table_scale(@, value)]} :
    /\ \A a \in Addr : TableInRange(mem[a])
    /\ heap' = WithoutTemp(mem)
    /\ ret' = TableRet("table_mul", "table", <<mem[dup.inst]>>)
    /\ UNCHANGED <<table, other_table>>
    /\ CompositionIdle

\* negation and multiplication of a table with a history of stores and
\* removals
NegNext ==
    \/ \E k \in TableKeys, v \in TableValues : TableSetItem(k, v)
    \/ \E k \in TableKeys : TableDelItem(k)
    \/ TableNeg
    \/ \E n \in Multipliers : TableMul(n)

NegSpec == TableInit /\ [][NegNext]_vars

\* table == other_table, hash(table) and hash(other_table)
TableHashEq ==
    /\ ret' = TableRet("hash_eq", "bool", <<count_table_equals(heap[table], heap[other_table]),
                                            __hash__(heap[table]), __hash__(heap[other_table])>>)
    /\ UNCHANGED <<heap, table, other_table>>
    /\ CompositionIdle

\* equality and hashes of two tables, one having removed cells
HashNext ==
    \/ PairBuild
    \/ \E k \in TableKeys : TableDelItem(k)
    \/ TableHashEq

HashSpec == TableInit /\ [][HashNext]_vars

\* table.update(other_table)
TableUpdate ==
    \E mem \in {update(heap, table, other_table)} :
    /\ \A a \in Addr : TableInRange(mem[a])
    /\ heap' = mem
    /\ ret' = TableRet("update", "ok", << >>)
    /\ UNCHANGED <<table, other_table>>
    /\ CompositionIdle

\* every operation that writes cells, the operand being a copy taken earlier
LayoutNext ==
    \/ TableNext
    \/ TableCopy
    \/ TableIAdd(other_table)
    \/ TableISub(other_table)
    \/ TableUpdate

LayoutSpec == TableInit /\ [][LayoutNext]_vars

\* comp = Composition(d) and table = CountTable(d): a composition and a
\* count table built from the same entries
MirrorBuild(d) ==
    /\ comp' = DictUpdate(EmptyDict, AsMapping(d))
    /\ heap' = [heap EXCEPT ![table] = CountTable(d)]
    /\ ret' = NoRet
    /\ UNCHANGED <<other, mass, mass_args, formula, pc, table, other_table, hash_seed, cvars>>

\* other = Composition(d) and other_table = CountTable(d)
MirrorBuildOther(d) ==
    /\ other' = DictUpdate(EmptyDict, AsMapping(d))
    /\ heap' = [heap EXCEPT ![other_table] = CountTable(d)]
    /\ ret' = NoRet
    /\ UNCHANGED <<comp, mass, mass_args, formula, pc, table, other_table, hash_seed, cvars>>

MirrorNext ==
    \/ \E d \in PlainDicts : MirrorBuild(d)
    \/ \E d \in PlainDicts : MirrorBuildOther(d)
    \/ TableAdd
    \/ Add

MirrorSpec == TableInit /\ [][MirrorNext]_vars

\* the count every key has, absent and stored-zero keys alike
SameCountEverywhere(a, b) ==
    \A k \in (DOMAIN a) \cup (DOMAIN b) : getitem(a, k) = getitem(b, k)

\* C1: a == b returns true exactly when every key has the same count in
\* both compositions, an absent key and a stored 0 both counting as 0.
C1_EqualsIffSameCounts ==
    ret.op = "eq" => (ret.val[1] <=> SameCountEverywhere(comp, other))

\* C2: a composition never stores a key whose count is 0.
C2_NoZeroStored ==
    \A k \in DOMAIN comp : comp[k] # 0

\* C3: every mass query returns the mass computed from the composition's
\* current contents with exactly the arguments of the call (and fails when
\* that computation fails), never a value cached for something else.
C3_MassOfCurrentContents ==
    [][ret'.op = "calc_mass" =>
         \E r \in calculate_mass(comp, ret'.args[1], ret'.args[2], MassTables[ret'.args[3]]) :
            /\ ret'.kind = r.kind
            /\ r.kind = "ok" => ret'.val = <<r.val>>]_vars

ExplicitNonzero(charge) == charge # << >> /\ charge[1] # 0

\* C4: every mass query with an explicit nonzero charge on a composition
\* whose H+ count is nonzero fails with ChemicalCompositionError.
C4_AmbiguousChargeAlwaysFails ==
    [][(ret'.op = "calc_mass" /\ ExplicitNonzero(ret'.args[2]) /\ getitem(comp, Hp) # 0)
         => ret'.kind = "ChemicalCompositionError"]_vars

\* C5: a mass query that returns successfully leaves the count of every key
\* unchanged, and H+ is absent afterwards if it was absent before.
C5_MassQueryKeepsCounts ==
    [][(ret'.op = "calc_mass" /\ ret'.kind = "ok") =>
          /\ SameCountEverywhere(comp, comp')
          /\ Hp \notin DOMAIN comp => Hp \notin DOMAIN comp']_vars

\* a mass was just computed (not served from the cache) for an explicit
\* nonzero charge on a composition without H+, and H+ is absent again
C5_Witness ==
    /\ ret.op = "calc_mass" /\ ret.kind = "ok"
    /\ ExplicitNonzero(ret.args[2])
    /\ mass_args = NoArgs /\ mass = ret.val
    /\ X \in DOMAIN comp /\ Hp \notin DOMAIN comp

\* C6: a mass query that fails once the charge is resolved (a key's element
\* is missing from the mass table) leaves the composition's contents as
\* they were before the call.
C6_FailedQueryRestoresCharge ==
    [][(ret'.op = "calc_mass" /\ ret'.kind = "KeyError")
         => SameCountEverywhere(comp, comp')]_vars

(***************************************************************************)
(* The meaning of a formula text, read left to right from the grammar:     *)
(*    formula ::= item*                                                    *)
(*    item    ::= atom | "(" formula ")" [signed integer]                  *)
(*    atom    ::= Element ["[" digits "]"] [signed integer]                *)
(* It maps <<element, isotope number>> to the sum of the signed counts.    *)
(***************************************************************************)
MeaningSum(a, b) ==
    [k \in (DOMAIN a) \cup (DOMAIN b) |->
        (IF k \in DOMAIN a THEN a[k] ELSE 0) + (IF k \in DOMAIN b THEN b[k] ELSE 0)]

MeaningTimes(a, n) == [k \in DOMAIN a |-> a[k] * n]

\* an optional signed integer at position p: where it ends and its value
\* (absent: it ends at p and counts as 1)
SignedAt(s, p) ==
    LET q == IF CharAt(s, p) \in {"+", "-"} THEN p + 1 ELSE p
        d == RunEnd(s, q, FALSE)
    IN  IF d = q THEN [pos |-> p, val |-> 1]
        ELSE [pos |-> d,
              val |-> IF CharAt(s, p) = "-" THEN 0 - DigitsValue(SubSeq(s, q, d - 1), 0)
                      ELSE DigitsValue(SubSeq(s, q, d - 1), 0)]

RECURSIVE MeaningFrom(_, _, _, _)
MeaningFrom(s, p, names, acc) ==
    IF p > Len(s) \/ s[p] = ")" THEN [ok |-> TRUE, pos |-> p, sum |-> acc]
    ELSE IF s[p] = "("
    THEN LET inner == MeaningFrom(s, p + 1, names, EmptyDict) IN
         IF ~inner.ok \/ CharAt(s, inner.pos) # ")"
         THEN [ok |-> FALSE, pos |-> p, sum |-> acc]
         ELSE LET m == SignedAt(s, inner.pos + 1) IN
              MeaningFrom(s, m.pos, names, MeaningSum(acc, MeaningTimes(inner.sum, m.val)))
    ELSE IF IsUpper(s[p])
    THEN LET n == RunEnd(s, p + 1, TRUE)
             name == SubSeq(s, p, n - 1)
             b == IsotopeEnd(s, n)
             iso == IF b > n THEN DigitsValue(SubSeq(s, n + 1, b - 2), 0) ELSE 0
             m == SignedAt(s, b)
         IN  IF name \notin names THEN [ok |-> FALSE, pos |-> p, sum |-> acc]
             ELSE MeaningFrom(s, m.pos, names,
                              MeaningSum(acc, (<<name, iso>> :> m.val)))
    ELSE [ok |-> FALSE, pos |-> p, sum |-> acc]

\* the text is a formula of the grammar over the elements of the mass table
WellFormed(s) ==
    LET r == MeaningFrom(s, 1, DOMAIN nist_mass, EmptyDict) IN r.ok /\ r.pos = Len(s) + 1

\* the (element, isotope, count) triples a formula denotes, zero sums left out
Meaning(s) ==
    LET sum == MeaningFrom(s, 1, DOMAIN nist_mass, EmptyDict).sum IN
    {<<k[1], k[2], sum[k]>> : k \in {x \in DOMAIN sum : sum[x] # 0}}

\* the triples a composition holds, its keys read back as element and isotope
Triples(d) ==
    {<<_parse_isotope_string(k).element_name, _parse_isotope_string(k).isotope_num, d[k]>> :
        k \in DOMAIN d}

\* the parse succeeded and built exactly what the formula denotes
Denotes(s, d) ==
    /\ ret.kind = "ok"
    /\ Triples(d) = Meaning(s)
    /\ Cardinality(DOMAIN d) = Cardinality(Meaning(s))

\* the depth of parentheses after each prefix of the text
RECURSIVE DepthAfter(_, _)
DepthAfter(s, p) ==
    IF p = 0 THEN 0
    ELSE DepthAfter(s, p - 1)
         + (IF s[p] = "(" THEN 1 ELSE IF s[p] = ")" THEN 0 - 1 ELSE 0)

Balanced(s) ==
    /\ \A p \in 0..Len(s) : DepthAfter(s, p) >= 0
    /\ DepthAfter(s, Len(s)) = 0

MaxDepth(s) ==
    CHOOSE d \in 0..Len(s) :
        /\ \E p \in 0..Len(s) : DepthAfter(s, p) = d
        /\ \A p \in 0..Len(s) : DepthAfter(s, p) <= d

HasEmptyGroup(s) == \E p \in 1..(Len(s) - 1) : s[p] = "(" /\ s[p + 1] = ")"

\* C7: a formula with balanced parentheses, at any nesting depth, parses to
\* the atoms outside groups plus every group's contents times its
\* multiplier (stated here for formulas without signed numbers and
\* without empty groups).
C7_NestedGroupsParse ==
    (pc = "parsed" /\ HasChar(formula, "(") /\ ~HasChar(formula, "-")
        /\ ~HasEmptyGroup(formula) /\ Balanced(formula) /\ WellFormed(formula))
      => Denotes(formula, comp)

\* C8: a group followed by a signed integer multiplier has every count of
\* its contents multiplied by the multiplier written right after it, and by
\* 1 when none is written (stated here for groups that are not nested).
C8_GroupMultiplierApplies ==
    (pc = "parsed" /\ MaxDepth(formula) = 1
        /\ Balanced(formula) /\ WellFormed(formula))
      => Denotes(formula, comp)

\* C9: a formula whose parentheses are not balanced never yields a
\* composition: parsing it fails.
C9_UnbalancedNeverParses ==
    (pc = "parsed" /\ ~Balanced(formula)) => ret.kind # "ok"

\* C10: a parenthesis-free formula of the atom grammar over the elements of
\* the mass table parses to the sum of the signed counts of its atoms per
\* (element, isotope) key: an omitted count is 1, an omitted isotope gives
\* the untagged key and a key whose counts sum to 0 is absent.
C10_FlatFormulaSumsAtoms ==
    pc = "parsed" =>
      /\ (~HasChar(formula, "(") /\ WellFormed(formula)) => Denotes(formula, comp)
      /\ formula = <<"H", "2", "O">> => comp = (H :> 2 @@ O :> 1)
      /\ formula = <<"H", "-", "2", "O", "-", "1">> => comp = (H :> 0 - 2 @@ O :> 0 - 1)
      /\ formula = <<"C", "[", "1", "3", "]", "H", "4">>
            => comp = (<<"C", "[", "1", "3", "]">> :> 1 @@ H :> 4)

\* C[13]H4 was parsed: an isotope tag, an omitted count and a written count
C10_Witness ==
    /\ pc = "parsed" /\ ret.kind = "ok"
    /\ formula = <<"C", "[", "1", "3", "]", "H", "4">>
    /\ DOMAIN comp = {<<"C", "[", "1", "3", "]">>, H}

\* C11: every failure of formula parsing is a ChemicalCompositionError: no
\* other exception type escapes Composition(formula=...).
C11_ParseFailuresAreCompositionErrors ==
    pc = "parsed" => ret.kind \in {"ok", "ChemicalCompositionError"}

\* C12: a constructor call that supplies both a formula and a mapping fails
\* with ChemicalCompositionError and builds no composition.
C12_BothSourcesRejected ==
    (pc = "parsed" /\ ret.op = "init_both") => ret.kind = "ChemicalCompositionError"

\* the count of every key of c is that of a plus sign times that of b
CountsCombine(c, a, sign, b) ==
    \A k \in (DOMAIN a) \cup (DOMAIN b) \cup (DOMAIN c) :
        getitem(c, k) = getitem(a, k) + sign * getitem(b, k)

GetsBecome(k, v) ==
    \A j \in TableKeys :
        count_table_get(heap'[table'], j) =
            IF j = k THEN v ELSE count_table_get(heap[table], j)

\* C14: after any sequence of set, increment, decrement and remove steps,
\* get reads for every key what a reference map put through the same steps
\* holds, and 0 for a key it does not hold: a fresh table reads 0 everywhere
\* and each step changes what get reads as the same step changes the map.
C14_GetFollowsReference ==
    [][/\ heap[table] = _initialize_table =>
              \A j \in TableKeys : count_table_get(heap[table], j) = 0
       /\ \A k \in TableKeys :
              /\ \A v \in TableValues :
                     /\ (ret'.op = "none" /\ TableSetItem(k, v)) => GetsBecome(k, v)
                     /\ (ret'.op = "none" /\ TableIncrement(k, v)) =>
                            GetsBecome(k, count_table_get(heap[table], k) + v)
                     /\ (ret'.op = "none" /\ TableDecrement(k, v)) =>
                            GetsBecome(k, count_table_get(heap[table], k) - v)
              /\ (ret'.op = "pop" /\ TablePop(k)) => GetsBecome(k, 0)
              /\ (ret'.op = "delitem" /\ TableDelItem(k)) => GetsBecome(k, 0)]_vars

\* a bin that has grown holds a removed cell followed by a key stored again
C14_Witness ==
    \E i \in 1..heap[table].size :
        /\ heap[table].bins[i].size > 2
        /\ heap[table].bins[i].used = 2
        /\ heap[table].bins[i].cells[1].key = NULL
        /\ heap[table].bins[i].cells[2].key # NULL
        /\ heap[table].bins[i].cells[2].value # 0

\* the keys a table holds
HeldKeys(tbl) == DOMAIN count_table_to_dict(tbl)

\* the value of every key of c is that of a plus sign times that of b
ValuesCombine(c, a, sign, b) ==
    /\ \A k \in TableKeys :
           count_table_get(c, k) = count_table_get(a, k) + sign * count_table_get(b, k)
    /\ HeldKeys(a) \cup HeldKeys(b) \subseteq HeldKeys(c)

\* C15: t1 += t2 and t1 -= t2 set every key of t1 to the old value plus or
\* minus that of t2, create the keys only t2 holds and leave t2 unchanged;
\* t1 + t2 and t1 - t2 return these values and leave both operands unchanged.
C15_TableArithmetic ==
    [][/\ (ret'.op = "iadd" /\ table # other_table /\ TableIAdd(other_table)) =>
              /\ ValuesCombine(heap'[table], heap[table], 1, heap[other_table])
              /\ heap'[other_table] = heap[other_table]
       /\ (ret'.op = "isub" /\ table # other_table /\ TableISub(other_table)) =>
              /\ ValuesCombine(heap'[table], heap[table], 0 - 1, heap[other_table])
              /\ heap'[other_table] = heap[other_table]
       /\ (ret'.op = "table_add" /\ TableAdd) =>
              /\ ValuesCombine(ret'.val[1], heap[table], 1, heap[other_table])
              /\ heap' = heap
       /\ (ret'.op = "table_sub" /\ TableSub) =>
              /\ ValuesCombine(ret'.val[1], heap[table], 0 - 1, heap[other_table])
              /\ heap' = heap]_vars

\* a sum was returned that holds a key of each operand, the operand having
\* a removed cell
C15_Witness ==
    /\ ret.op = "table_add"
    /\ HeldKeys(heap[table]) = {H} /\ HeldKeys(heap[other_table]) = {O}
    /\ HeldKeys(ret.val[1]) = {H, O}
    /\ \E i \in 1..heap[other_table].size : \E j \in 1..heap[other_table].bins[i].used :
           heap[other_table].bins[i].cells[j].key = NULL

\* the value d gives to key k, 0 when d does not hold it
DictGet(d, k) == IF k \in DOMAIN AsMapping(d) THEN AsMapping(d)[k] ELSE 0

\* C16: t + m, t - m, t += m and t -= m with a plain mapping m give every
\* key k the value t[k] + m[k], respectively t[k] - m[k], as the same
\* operation with CountTable(m) does.
C16_PlainMappingOperand ==
    [][\A d \in PlainDicts :
         /\ (ret'.op = "add_dict" /\ TableAddDict(d)) =>
                \A k \in TableKeys : count_table_get(ret'.val[1], k) =
                    count_table_get(heap[table], k) + DictGet(d, k)
         /\ (ret'.op = "sub_dict" /\ TableSubDict(d)) =>
                \A k \in TableKeys : count_table_get(ret'.val[1], k) =
                    count_table_get(heap[table], k) - DictGet(d, k)
         /\ (ret'.op = "iadd_dict" /\ TableIAddDict(d)) =>
                \A k \in TableKeys : count_table_get(heap'[table], k) =
                    count_table_get(heap[table], k) + DictGet(d, k)
         /\ (ret'.op = "isub_dict" /\ TableISubDict(d)) =>
                \A k \in TableKeys : count_table_get(heap'[table], k) =
                    count_table_get(heap[table], k) - DictGet(d, k)]_vars

\* C17: two tables compare equal exactly when every key has the same value
\* in both, an absent key counting as 0, whichever table is the left operand
\* and whatever cells their bins hold.
C17_TableEquality ==
    ret.op = "table_eq" =>
        (ret.val[1] <=> \A k \in TableKeys :
            count_table_get(heap[table], k) = count_table_get(heap[other_table], k))

\* the tables compared equal although one holds a key with value 0 that the
\* other does not hold, and the receiver has a removed cell
C17_Witness ==
    /\ ret.op = "table_eq" /\ ret.val[1]
    /\ HeldKeys(heap[table]) # HeldKeys(heap[other_table])
    /\ \E i \in 1..heap[table].size : \E j \in 1..heap[table].bins[i].used :
           heap[table].bins[i].cells[j].key = NULL

\* C18: pop(key) and del table[key] return the key's previous value when
\* the key is held, and for a key that is not held return 0 without raising
\* and leave the table unchanged.
C18_RemoveAbsentReturnsZero ==
    [][\A k \in TableKeys :
         /\ (ret'.op = "pop" /\ TablePop(k)) =>
                /\ ret'.kind = "ok"
                /\ ret'.val = <<count_table_get(heap[table], k)>>
                /\ k \notin HeldKeys(heap[table]) => heap' = heap
         /\ (ret'.op = "delitem" /\ TableDelItem(k)) =>
                /\ ret'.kind = "ok"
                /\ k \notin HeldKeys(heap[table]) => heap' = heap]_vars

\* C19: t.copy() returns a table equal to t that shares nothing with it:
\* the copy is another object with the same entries, and a later set,
\* increment, decrement, remove, scale or clear of either table leaves the
\* entries of the other as they were.
C19_CopyIsIndependent ==
    [][/\ (ret'.op = "copy" /\ TableCopy) =>
              /\ other_table' # table'
              /\ count_table_to_dict(heap'[other_table']) = count_table_to_dict(heap[table])
              /\ count_table_to_dict(heap'[table']) = count_table_to_dict(heap[table])
       /\ (ret'.op = "copy_back" /\ TableCopyBack) =>
              /\ other_table' # table'
              /\ count_table_to_dict(heap'[table']) = count_table_to_dict(heap[other_table])
              /\ count_table_to_dict(heap'[other_table']) =
                     count_table_to_dict(heap[other_table])
       /\ ret'.op \notin {"copy", "copy_back"} =>
              count_table_to_dict(heap'[other_table']) =
                  count_table_to_dict(heap[other_table])]_vars

\* the copy still holds what the receiver held when it was copied, and the
\* receiver has since been given another value
C19_Witness ==
    /\ table # other_table
    /\ count_table_to_dict(heap[other_table]) = (H :> 1)
    /\ count_table_to_dict(heap[table]) = (H :> 0 - 1)

\* C20: for compositions and count tables built from the same entries, the
\* dict of t1 + t2 is the dict c1 + c2 holds: the same keys with the same
\* values, the keys whose sum is 0 included.
C20_TableSumMirrorsComposition ==
    ret.op = "table_add" => count_table_to_dict(ret.val[1]) = __add__(comp, other)

\* a sum was returned in which a key both operands hold has the value 0
C20_Witness ==
    /\ ret.op = "table_add"
    /\ H \in DOMAIN comp /\ comp[H] # 0
    /\ H \in DOMAIN other /\ other[H] # 0
    /\ H \in HeldKeys(ret.val[1]) /\ count_table_get(ret.val[1], H) = 0

\* C21: c.clone() and c.copy() return a composition equal to c that is
\* another object with its own storage: the call leaves c unchanged, and a
\* later item assignment, +=, -= or *= on either object leaves every count
\* of the other unchanged.
C21_CloneOwnsItsStorage ==
    [][/\ ret'.op \in {"clone", "copy"} =>
              /\ clone_obj' # c_obj'
              /\ objs'[clone_obj'] = objs[c_obj]
              /\ __eq__(objs'[clone_obj'], objs'[c_obj'])
              /\ objs'[c_obj'] = objs[c_obj]
       /\ ret'.op = "mutate" =>
              \A a \in {c_obj, clone_obj} \ {ret'.args[1]} : objs'[a] = objs[a]]_vars

\* the clone has been changed since it was taken and c still holds what it
\* held, or the other way round
C21_Witness ==
    /\ ret.op = "mutate"
    /\ c_obj # clone_obj
    /\ objs[c_obj] = (H :> 1)
    /\ objs[clone_obj] = (H :> 1) @@ (O :> 2)

\* C22: assigning 0 to a key removes the key and nothing else: afterwards
\* reading the key yields 0, the key is not among the items and assigning 0
\* again changes nothing; reading a key never raises and leaves the
\* composition as it was, and yields 0 for an absent key.
C22_ZeroAssignmentRemoves ==
    [][/\ (ret'.op = "setitem" /\ ret'.args[2] = 0) =>
              /\ ret'.args[1] \notin DOMAIN comp'
              /\ __getitem__(comp', ret'.args[1]) = 0
              /\ __setitem__(comp', ret'.args[1], 0) = comp'
              /\ comp' = DictDel(comp, ret'.args[1])
       /\ ret'.op = "getitem" =>
              /\ ret'.kind = "ok"
              /\ comp' = comp
              /\ ret'.args[1] \notin DOMAIN comp => ret'.val = <<0>>
              /\ ret'.args[1] \in DOMAIN comp => ret'.val = <<comp[ret'.args[1]]>>]_vars

\* 0 was assigned to H, which is no longer held, while O is held
C22_Witness ==
    /\ ret.op = "setitem" /\ ret.args = <<H, 0>>
    /\ DOMAIN comp = {O}

\* C23: for every composition a, a + (-a) compares equal to the empty
\* composition, and the empty composition compares equal to a + (-a).
C23_AdditiveInverse ==
    ret.op = "add_neg" => (ret.val[1] /\ ret.val[2])

\* the sum of a composition of two keys and its negation holds both keys
\* with the count 0
C23_Witness ==
    /\ ret.op = "add_neg"
    /\ DOMAIN comp = {H, O} /\ comp[H] > 0 /\ comp[O] < 0
    /\ ret.args[1] = (H :> 0) @@ (O :> 0)

\* C24: for all compositions a, b and c, the sums (a + b) + c, a + (b + c)
\* and (a + c) + b compare equal to one another, whichever is the left
\* operand of the comparison.
C24_AdditionRegroups ==
    ret.op = "regroup" => \A i \in 1..Len(ret.val) : ret.val[i]

\* three compositions that each hold H, two of them with opposite counts,
\* were summed in the three orders
C24_Witness ==
    /\ ret.op = "regroup"
    /\ H \in DOMAIN comp /\ H \in DOMAIN other /\ H \in ret.args[1]
    /\ comp[H] + other[H] = 0
    /\ O \in ret.args[1] /\ O \notin DOMAIN comp

\* C27: for any two compositions a and b reached by any operations, a == b
\* and b == a give the same answer, and a != b is the negation of a == b.
C27_EqualitySymmetric ==
    ret.op = "eq_both" =>
        /\ ret.val[1] = ret.val[2]
        /\ ret.val[3] = ~ret.val[1]
        /\ ret.val[4] = ~ret.val[2]

\* the cells with a key of a table, as <<bin, cell>> pairs
LiveCells(tbl) ==
    {p \in UNION {{<<i, j>> : j \in 1..tbl.bins[i].used} : i \in 1..tbl.size} :
        tbl.bins[p[1]].cells[p[2]].key # NULL}

\* C25: after any set, increment, decrement, remove, add, subtract, update,
\* scale, clear and copy, every table holds at most one cell with a given
\* key, every cell with a key lies in the bin of index hash(key) mod the
\* number of bins, and a lookup of a stored key finds that cell.
C25_OneCellPerKeyInItsBin ==
    \A a \in Addr :
        \A p \in LiveCells(heap[a]) :
            LET key == heap[a].bins[p[1]].cells[p[2]].key IN
            /\ p[1] = (PyObject_Hash(key) % heap[a].size) + 1
            /\ \A q \in LiveCells(heap[a]) :
                   heap[a].bins[q[1]].cells[q[2]].key = key => q = p
            /\ count_table_find_bin(heap[a], key) = p[1]
            /\ count_table_bin_find(heap[a].bins[p[1]], key) = p[2]

\* the receiver holds a key stored again behind its removed cell, in a bin
\* it shares with the other key, and its copy holds the two keys
C25_Witness ==
    /\ \E i \in 1..heap[table].size :
           /\ heap[table].bins[i].used = 2
           /\ heap[table].bins[i].cells[1].key = NULL
           /\ heap[table].bins[i].cells[2].key # NULL
    /\ Cardinality(LiveCells(heap[other_table])) = 2
    /\ \E i \in 1..heap[other_table].size : heap[other_table].bins[i].used = 2

\* the capacity new is the capacity old doubled some number of times
Doubled(old, new) == \E n \in 0..MaxUsed : new = old * (2 ^ n)

\* the objects created by the step
Fresh == IF ret'.op = "copy" THEN {other_table'} ELSE {}

\* C26: whenever a step changes a table (which starts with empty bins), the
\* used cells of each of its bins are within the bin's capacity afterwards,
\* the capacity of a bin has changed only by doubling, and neither it nor
\* the number of bins has decreased.
C26_BinsOnlyDouble ==
    [][\A a \in Addr :
         \/ heap'[a] = heap[a]
         \/ /\ \A i \in 1..heap'[a].size :
                   /\ heap'[a].bins[i].used <= heap'[a].bins[i].size
                   /\ Len(heap'[a].bins[i].cells) = heap'[a].bins[i].used
            /\ a \notin Fresh =>
                   /\ heap'[a].size >= heap[a].size
                   /\ \A i \in 1..heap[a].size :
                          /\ heap'[a].bins[i].size >= heap[a].bins[i].size
                          /\ Doubled(heap[a].bins[i].size, heap'[a].bins[i].size)]_vars

\* a bin of the receiver has doubled
C26_Witness ==
    \E i \in 1..heap[table].size :
        /\ heap[table].bins[i].size = 2 * _initialize_table.bins[i].size
        /\ heap[table].bins[i].used = 2

\* C30: in every state reached by set, increment, decrement, add, subtract,
\* scale and remove, k in t holds exactly when k is one of t.keys(), and
\* len(t) is the number of keys k for which k in t holds.
C30_MembershipKeysLength ==
    /\ \A k \in TableKeys :
           __contains__(heap[table], k) <=>
               \E n \in 1..Len(count_table_keys(heap[table])) :
                   count_table_keys(heap[table])[n] = k
    /\ __len__(heap[table]) =
           Cardinality({k \in TableKeys : __contains__(heap[table], k)})

\* C28: -t returns a new table holding the negated value of every entry of
\* t, as t * -1 does, and leaves t unchanged.
C28_NegationReturnsNewTable ==
    [][ret'.op = "table_neg" =>
           /\ ret'.kind = "table"
           /\ heap' = heap
           /\ \A k \in TableKeys :
                  count_table_get(ret'.val[1], k) = 0 - count_table_get(heap[table], k)]_vars

\* C29: whenever two tables compare equal their hashes are equal, whatever
\* their insertion order and bin layout, and also when one holds an entry
\* with value 0 for a key the other lacks.
C29_EqualTablesHashEqual ==
    (ret.op = "hash_eq" /\ ret.val[1]) => ret.val[2] = ret.val[3]

=============================================================================
